---- MODULE Spec2Model ----
(***************************************************************************)
(* Model of visualization::VulkanApplication (vulkan_application.cpp):     *)
(* the construction chain of the constructor, the run loop and drawFrame,  *)
(* together with the device-side progress (graphics queue, presentation    *)
(* engine) that the fence and the two semaphores synchronise with.         *)
(***************************************************************************)
EXTENDS Integers, Sequences, FiniteSets, TLC

VARIABLES
    pc,                     \* position of the single CPU thread
    ndebug,                 \* build flavour: TRUE when assert() is compiled out
    created,                \* members of the application object constructed so far
    error,                  \* the exception / abort that ended the program, if any
    available,              \* parameter of the running gather call (enumerated list)
    required,               \* parameter of the running gather call (required list)
    gathered,               \* what the running gather call produced
    enabled_layers,         \* local of buildInstance / buildLogicalDevice
    enabled_extensions,     \* local of buildInstance / buildLogicalDevice
    queue_families,         \* local of findQueueFamilies
    index,                  \* loop counter of findQueueFamilies
    indices,                \* local of findQueueFamilies
    queue_family_indices,   \* member
    device_queue_families,  \* families the logical device was created with a queue for
    graphics_queue,         \* member: the handle retrieved at line 24
    present_queue,          \* member: the handle retrieved at line 25
    support,                \* local of the constructor body (line 35)
    window_size,            \* what window->size() returned to chooseSwapExtent
    swap_chain_extent,      \* member
    swap_chain_images,      \* member: state of every swapchain image
    command_buffer,         \* member: lifecycle state of the single command buffer
    image_available_semaphore,
    render_finished_semaphore,
    frame_in_flight_fence,
    window_open,            \* last result of window->update()
    frame,                  \* number of drawFrame invocations started
    image_index,            \* local of drawFrame
    acquire_result,         \* local of drawFrame
    present_result,         \* local of drawFrame
    graphics_work,          \* batches submitted to the graphics queue, not yet retired
    present_work,           \* presentation requests queued, not yet executed
    acquire_frame,          \* frame whose acquire owns the pending image-available signal
    acquired,               \* frames whose image acquisition has completed
    started,                \* frames whose colour-attachment-output work has begun
    retired,                \* frames whose submission has completed
    presented               \* frames whose presentation has executed

vars == <<pc, ndebug, created, error, available, required, gathered, enabled_layers,
          enabled_extensions, queue_families, index, indices, queue_family_indices,
          device_queue_families, graphics_queue, present_queue, support, window_size,
          swap_chain_extent, swap_chain_images, command_buffer,
          image_available_semaphore, render_finished_semaphore, frame_in_flight_fence,
          window_open, frame, image_index, acquire_result, present_result,
          graphics_work, present_work, acquire_frame, acquired, started, retired,
          presented>>

ctorVars == <<created, error, available, required, gathered, enabled_layers,
              enabled_extensions, queue_families, index, indices, queue_family_indices,
              device_queue_families, graphics_queue, present_queue, support,
              window_size, swap_chain_extent>>

syncVars == <<swap_chain_images, command_buffer, image_available_semaphore,
              render_finished_semaphore, frame_in_flight_fence>>

frameVars == <<window_open, frame, image_index, acquire_result, present_result>>

deviceVars == <<graphics_work, present_work, acquire_frame, acquired, started,
                retired, presented>>

(***************************************************************************)
(* Bounds of the model.                                                    *)
(***************************************************************************)
MaxFrames == 2          \* drawFrame invocations explored
MaxFamilies == 2        \* queue families of the physical device
MaxAvailable == 2       \* length of an enumerated layer / extension list
MaxRequired == 2        \* length of the window's required-extension list
MaxDim == 3             \* largest width / height of an extent
MaxMinImageCount == 2   \* largest minImageCount of the surface

(***************************************************************************)
(* Program constants.                                                      *)
(***************************************************************************)
\* std::numeric_limits<uint32_t>::max(), the sentinel width of a flexible extent.
\* TLC integers stop at 2^31 - 1, so the largest value of the type is modelled
\* by the largest value TLC has; only comparisons with it are made.
UINT32_MAX == 2147483647

validation_layers == <<"VK_LAYER_KHRONOS_validation">>
device_extensions == <<"VK_KHR_swapchain">>
enable_validation_layers == TRUE

LayerNames == {"VK_LAYER_KHRONOS_validation", "VK_LAYER_MESA_overlay"}
ExtensionNames == {"VK_KHR_swapchain", "VK_KHR_surface", "VK_KHR_xcb_surface"}

SeqsUpTo(S, n) == UNION {[1..k -> S] : k \in 0..n}
Range(s) == {s[i] : i \in 1..Len(s)}

nullopt == [has_value |-> FALSE, value |-> 0]
Some(v) == [has_value |-> TRUE, value |-> v]

NoError == [kind |-> "none", what |-> "", name |-> ""]
NoGather == [ok |-> TRUE, names |-> <<>>, what |-> "", name |-> ""]
NoSupport == [minImageCount |-> 0, maxImageCount |-> 0,
              currentExtent |-> <<0, 0>>, minImageExtent |-> <<0, 0>>,
              maxImageExtent |-> <<0, 0>>]

(***************************************************************************)
(* gatherLayers / gatherExtensions (lines 49-87).                          *)
(***************************************************************************)
\* std::find_if over the available list: position of the first match, or
\* Len + 1 for end().
RECURSIVE find_if(_, _, _)
find_if(avail, name, i) ==
    IF i > Len(avail) THEN Len(avail) + 1
    ELSE IF avail[i] = name THEN i
    ELSE find_if(avail, name, i + 1)

RECURSIVE gatherSkipMissing(_, _, _, _, _)
gatherSkipMissing(avail, req, what, i, acc) ==
    IF i > Len(req) THEN [ok |-> TRUE, names |-> acc, what |-> "", name |-> ""]
    ELSE IF find_if(avail, req[i], 1) = Len(avail) + 1
         THEN gatherSkipMissing(avail, req, what, i + 1, acc)
         ELSE gatherSkipMissing(avail, req, what, i + 1, Append(acc, req[i]))

\* The for loop shared by both functions: throws on the first required name
\* that is not found, otherwise pushes the required name.
RECURSIVE gather(_, _, _, _, _)
gather(avail, req, what, i, acc) ==
    IF i > Len(req) THEN [ok |-> TRUE, names |-> acc, what |-> "", name |-> ""]
    ELSE IF find_if(avail, req[i], 1) = Len(avail) + 1
         THEN [ok |-> FALSE, names |-> <<>>, what |-> what, name |-> req[i]]
         ELSE gather(avail, req, what, i + 1, Append(acc, req[i]))

gatherLayers(available_layers, required_layers) ==
    gather(available_layers, required_layers, "missing required layer", 1, <<>>)

gatherExtensions(available_extensions, required_extensions) ==
    gather(available_extensions, required_extensions, "missing required extension", 1, <<>>)

(***************************************************************************)
(* chooseSwapExtent (lines 129-140).                                       *)
(***************************************************************************)
\* std::clamp(v, lo, hi)
clamp(v, lo, hi) == IF v < lo THEN lo ELSE IF hi < v THEN hi ELSE v

chooseSwapExtentUnclamped(capabilities, size) ==
    IF capabilities.currentExtent[1] # UINT32_MAX
    THEN capabilities.currentExtent
    ELSE size

chooseSwapExtent(capabilities, size) ==
    IF capabilities.currentExtent[1] # UINT32_MAX
    THEN capabilities.currentExtent
    ELSE <<clamp(size[1], capabilities.minImageExtent[1], capabilities.maxImageExtent[1]),
           clamp(size[2], capabilities.minImageExtent[2], capabilities.maxImageExtent[2])>>

\* image_count of buildSwapChain (lines 186-189)
imageCount(capabilities) ==
    IF capabilities.maxImageCount > 0
    THEN IF capabilities.minImageCount + 1 < capabilities.maxImageCount
         THEN capabilities.minImageCount + 1
         ELSE capabilities.maxImageCount
    ELSE capabilities.minImageCount + 1

(***************************************************************************)
(* Input domains.                                                          *)
(***************************************************************************)
WindowExtensionNames == {"VK_KHR_surface", "VK_KHR_xcb_surface"}

\* vk::QueueFamilyProperties with the answer of getSurfaceSupportKHR for it
FamilyProps == [graphics : BOOLEAN, present : BOOLEAN]

Dims == 1..MaxDim
Extents == Dims \X Dims
Sentinel == <<UINT32_MAX, UINT32_MAX>>
WindowSizes == (0..(MaxDim + 1)) \X (0..(MaxDim + 1))

\* Surface capabilities as Vulkan reports them: minImageExtent <= maxImageExtent,
\* currentExtent the sentinel or an extent within them, maxImageCount 0 or
\* >= minImageCount >= 1.
ValidCaps(c) ==
    /\ c.minImageExtent[1] <= c.maxImageExtent[1]
    /\ c.minImageExtent[2] <= c.maxImageExtent[2]
    /\ \/ c.currentExtent = Sentinel
       \/ /\ c.currentExtent \in Extents
          /\ c.minImageExtent[1] <= c.currentExtent[1]
          /\ c.currentExtent[1] <= c.maxImageExtent[1]
          /\ c.minImageExtent[2] <= c.currentExtent[2]
          /\ c.currentExtent[2] <= c.maxImageExtent[2]
    /\ c.maxImageCount = 0 \/ c.maxImageCount >= c.minImageCount

AllCaps(minCounts, maxCounts) ==
    {c \in [minImageCount : minCounts, maxImageCount : maxCounts,
            currentExtent : Extents \cup {Sentinel},
            minImageExtent : Extents, maxImageExtent : Extents] : ValidCaps(c)}

\* Every image-count situation, with one fixed and one flexible extent.
LoopCaps ==
    {c \in AllCaps(1..MaxMinImageCount, 0..MaxMinImageCount) :
        /\ c.minImageExtent = <<1, 1>>
        /\ c.maxImageExtent = <<2, 2>>
        /\ c.currentExtent \in {Sentinel, <<2, 2>>}}
LoopWindowSizes == {<<MaxDim + 1, 0>>}

\* Every extent situation, with one image count.
ExtentCaps == AllCaps({1}, {0})

(***************************************************************************)
(* State after program start, before the constructor runs.                 *)
(***************************************************************************)
NoIndices == [graphics_family |-> nullopt, present_family |-> nullopt]
NoQueue == [retrieved |-> FALSE, family |-> 0]

Init ==
    /\ pc = "buildInstance"
    /\ ndebug \in BOOLEAN
    /\ created = {}
    /\ error = NoError
    /\ available = <<>>
    /\ required = <<>>
    /\ gathered = NoGather
    /\ enabled_layers = <<>>
    /\ enabled_extensions = <<>>
    /\ queue_families = <<>>
    /\ index = 0
    /\ indices = NoIndices
    /\ queue_family_indices = NoIndices
    /\ device_queue_families = {}
    /\ graphics_queue = NoQueue
    /\ present_queue = NoQueue
    /\ support = NoSupport
    /\ window_size = <<0, 0>>
    /\ swap_chain_extent = <<0, 0>>
    /\ swap_chain_images = <<>>
    /\ command_buffer = "none"
    /\ image_available_semaphore = "none"
    /\ render_finished_semaphore = "none"
    /\ frame_in_flight_fence = "none"
    /\ window_open = TRUE
    /\ frame = 0
    /\ image_index = 0
    /\ acquire_result = "none"
    /\ present_result = "none"
    /\ graphics_work = <<>>
    /\ present_work = <<>>
    /\ acquire_frame = 0
    /\ acquired = {}
    /\ started = {}
    /\ retired = {}
    /\ presented = {}

\* An exception leaves the constructor or run(): the program does not continue
\* (nothing in these functions catches it, and a failure ends the process).
Throw(kind, what, name) ==
    /\ error' = [kind |-> kind, what |-> what, name |-> name]
    /\ pc' = "terminated"

(***************************************************************************)
(* buildInstance (lines 158-167), first member initialiser (line 19).      *)
(***************************************************************************)
requiredLayers == IF enable_validation_layers THEN validation_layers ELSE <<>>

\* One call of gatherLayers / gatherExtensions inside a build function: the
\* arguments and the outcome become visible, a failure throws.
GatherCall(result, avail, req, next) ==
    /\ available' = avail
    /\ required' = req
    /\ gathered' = result
    /\ IF result.ok
       THEN pc' = next /\ error' = error
       ELSE Throw("runtime_error", result.what, result.name)

buildInstance_gatherLayers ==
    /\ pc = "buildInstance"
    /\ \E al \in SeqsUpTo(LayerNames, MaxAvailable) :
         LET r == gatherLayers(al, requiredLayers) IN
         /\ GatherCall(r, al, requiredLayers, "buildInstance_extensions")
         /\ enabled_layers' = r.names
    /\ UNCHANGED <<ndebug, created, enabled_extensions, queue_families, index, indices,
                   queue_family_indices, device_queue_families, graphics_queue,
                   present_queue, support, window_size, swap_chain_extent,
                   syncVars, frameVars, deviceVars>>

buildInstance_gatherExtensions ==
    /\ pc = "buildInstance_extensions"
    /\ \E ae \in SeqsUpTo(ExtensionNames, MaxAvailable),
          re \in SeqsUpTo(WindowExtensionNames, MaxRequired) :
         LET r == gatherExtensions(ae, re) IN
         /\ GatherCall(r, ae, re, "buildInstance_create")
         /\ enabled_extensions' = r.names
    /\ UNCHANGED <<ndebug, created, enabled_layers, queue_families, index, indices,
                   queue_family_indices, device_queue_families, graphics_queue,
                   present_queue, support, window_size, swap_chain_extent,
                   syncVars, frameVars, deviceVars>>

\* The locals of a build function end with it.
DropGatherLocals ==
    /\ available' = <<>>
    /\ required' = <<>>
    /\ gathered' = NoGather
    /\ enabled_layers' = <<>>
    /\ enabled_extensions' = <<>>

buildInstance_create ==
    /\ pc = "buildInstance_create"
    /\ created' = created \cup {"instance"}
    /\ DropGatherLocals
    /\ pc' = "createSurface"
    /\ UNCHANGED <<ndebug, error, queue_families, index, indices,
                   queue_family_indices, device_queue_families, graphics_queue,
                   present_queue, support, window_size, swap_chain_extent,
                   syncVars, frameVars, deviceVars>>

\* A member initialiser that only constructs one more member.
Construct(at, member, next) ==
    /\ pc = at
    /\ created' = created \cup {member}
    /\ pc' = next
    /\ UNCHANGED <<ndebug, error, available, required, gathered, enabled_layers,
                   enabled_extensions, queue_families, index, indices,
                   queue_family_indices, device_queue_families, graphics_queue,
                   present_queue, support, window_size, swap_chain_extent,
                   swap_chain_images, frameVars, deviceVars>>

createSurface ==
    /\ Construct("createSurface", "surface", "selectPhysicalDevice")
    /\ UNCHANGED syncVars

selectPhysicalDevice ==
    /\ Construct("selectPhysicalDevice", "physical_device", "findQueueFamilies")
    /\ UNCHANGED syncVars

(***************************************************************************)
(* findQueueFamilies (lines 89-106), line 22.                              *)
(***************************************************************************)
findQueueFamilies_enter ==
    /\ pc = "findQueueFamilies"
    /\ \E qf \in SeqsUpTo(FamilyProps, MaxFamilies) : queue_families' = qf
    /\ index' = 0
    /\ indices' = NoIndices
    /\ pc' = "findQueueFamilies_loop"
    /\ UNCHANGED <<ndebug, created, error, available, required, gathered,
                   enabled_layers, enabled_extensions, queue_family_indices,
                   device_queue_families, graphics_queue, present_queue, support,
                   window_size, swap_chain_extent, syncVars, frameVars, deviceVars>>

\* One iteration of the for loop; family `index` is queue_families[index + 1].
scanFamily(found, family, idx) ==
    [graphics_family |-> IF family.graphics THEN Some(idx) ELSE found.graphics_family,
     present_family  |-> IF family.present THEN Some(idx) ELSE found.present_family]

findQueueFamilies_iterate ==
    /\ pc = "findQueueFamilies_loop"
    /\ index < Len(queue_families)
    /\ indices' = scanFamily(indices, queue_families[index + 1], index)
    /\ index' = index + 1
    /\ UNCHANGED <<pc, ndebug, created, error, available, required, gathered,
                   enabled_layers, enabled_extensions, queue_families,
                   queue_family_indices, device_queue_families, graphics_queue,
                   present_queue, support, window_size, swap_chain_extent,
                   syncVars, frameVars, deviceVars>>

findQueueFamilies_return ==
    /\ pc = "findQueueFamilies_loop"
    /\ ~(index < Len(queue_families))
    /\ queue_family_indices' = indices
    /\ created' = created \cup {"queue_family_indices"}
    /\ queue_families' = <<>>
    /\ index' = 0
    /\ indices' = NoIndices
    /\ pc' = "buildLogicalDevice"
    /\ UNCHANGED <<ndebug, error, available, required, gathered,
                   enabled_layers, enabled_extensions,
                   device_queue_families, graphics_queue, present_queue, support,
                   window_size, swap_chain_extent, syncVars, frameVars, deviceVars>>

(***************************************************************************)
(* buildLogicalDevice (lines 169-183), line 23.                            *)
(***************************************************************************)
missingBothQueueFamilies(qfi) ==
    ~qfi.graphics_family.has_value /\ ~qfi.present_family.has_value

\* The condition of line 170.
missingQueueFamily(qfi) ==
    ~qfi.graphics_family.has_value \/ ~qfi.present_family.has_value

buildLogicalDevice_check ==
    /\ pc = "buildLogicalDevice"
    /\ IF missingQueueFamily(queue_family_indices)
       THEN Throw("runtime_error", "cannot find queues for both graphics and present", "")
       ELSE pc' = "buildLogicalDevice_layers" /\ error' = error
    /\ UNCHANGED <<ndebug, created, available, required, gathered, enabled_layers,
                   enabled_extensions, queue_families, index, indices,
                   queue_family_indices, device_queue_families, graphics_queue,
                   present_queue, support, window_size, swap_chain_extent,
                   syncVars, frameVars, deviceVars>>

buildLogicalDevice_gatherLayers ==
    /\ pc = "buildLogicalDevice_layers"
    /\ \E al \in SeqsUpTo(LayerNames, MaxAvailable) :
         LET r == gatherLayers(al, requiredLayers) IN
         /\ GatherCall(r, al, requiredLayers, "buildLogicalDevice_extensions")
         /\ enabled_layers' = r.names
    /\ UNCHANGED <<ndebug, created, enabled_extensions, queue_families, index, indices,
                   queue_family_indices, device_queue_families, graphics_queue,
                   present_queue, support, window_size, swap_chain_extent,
                   syncVars, frameVars, deviceVars>>

buildLogicalDevice_gatherExtensions ==
    /\ pc = "buildLogicalDevice_extensions"
    /\ \E ae \in SeqsUpTo(ExtensionNames, MaxAvailable) :
         LET r == gatherExtensions(ae, device_extensions) IN
         /\ GatherCall(r, ae, device_extensions, "buildLogicalDevice_create")
         /\ enabled_extensions' = r.names
    /\ UNCHANGED <<ndebug, created, enabled_layers, queue_families, index, indices,
                   queue_family_indices, device_queue_families, graphics_queue,
                   present_queue, support, window_size, swap_chain_extent,
                   syncVars, frameVars, deviceVars>>

\* Lines 178-182: one vk::DeviceQueueCreateInfo, for the graphics family.
queueCreateFamilies(qfi) == {qfi.graphics_family.value}

buildLogicalDevice_create ==
    /\ pc = "buildLogicalDevice_create"
    /\ device_queue_families' = queueCreateFamilies(queue_family_indices)
    /\ created' = created \cup {"device"}
    /\ DropGatherLocals
    /\ pc' = "getGraphicsQueue"
    /\ UNCHANGED <<ndebug, error, queue_families, index, indices,
                   queue_family_indices, graphics_queue, present_queue, support,
                   window_size, swap_chain_extent, syncVars, frameVars, deviceVars>>

(***************************************************************************)
(* Remaining member initialisers (lines 24-34).                            *)
(***************************************************************************)
getQueue(family) == [retrieved |-> TRUE, family |-> family]

getGraphicsQueue ==
    /\ pc = "getGraphicsQueue"
    /\ graphics_queue' = getQueue(queue_family_indices.graphics_family.value)
    /\ created' = created \cup {"graphics_queue"}
    /\ pc' = "getPresentQueue"
    /\ UNCHANGED <<ndebug, error, available, required, gathered, enabled_layers,
                   enabled_extensions, queue_families, index, indices,
                   queue_family_indices, device_queue_families, present_queue,
                   support, window_size, swap_chain_extent, syncVars, frameVars,
                   deviceVars>>

getPresentQueue ==
    /\ pc = "getPresentQueue"
    /\ present_queue' = getQueue(queue_family_indices.present_family.value)
    /\ created' = created \cup {"present_queue"}
    /\ pc' = "createCommandPool"
    /\ UNCHANGED <<ndebug, error, available, required, gathered, enabled_layers,
                   enabled_extensions, queue_families, index, indices,
                   queue_family_indices, device_queue_families, graphics_queue,
                   support, window_size, swap_chain_extent, syncVars, frameVars,
                   deviceVars>>

createCommandPool ==
    /\ Construct("createCommandPool", "command_pool", "createCommandBuffer")
    /\ UNCHANGED syncVars

createCommandBuffer ==
    /\ Construct("createCommandBuffer", "command_buffer", "image_available_semaphore")
    /\ command_buffer' = "initial"
    /\ UNCHANGED <<image_available_semaphore, render_finished_semaphore,
                   frame_in_flight_fence>>

createImageAvailableSemaphore ==
    /\ Construct("image_available_semaphore", "image_available_semaphore",
                 "render_finished_semaphore")
    /\ image_available_semaphore' = "unsignaled"
    /\ UNCHANGED <<command_buffer, render_finished_semaphore, frame_in_flight_fence>>

createRenderFinishedSemaphore ==
    /\ Construct("render_finished_semaphore", "render_finished_semaphore",
                 "frame_in_flight_fence")
    /\ render_finished_semaphore' = "unsignaled"
    /\ UNCHANGED <<command_buffer, image_available_semaphore, frame_in_flight_fence>>

createFrameInFlightFence_unsignaled ==
    /\ Construct("frame_in_flight_fence", "frame_in_flight_fence",
                 "querySwapChainSupport")
    /\ frame_in_flight_fence' = "unsignaled"
    /\ UNCHANGED <<command_buffer, image_available_semaphore, render_finished_semaphore>>

\* vk::FenceCreateFlagBits::eSignaled
createFrameInFlightFence ==
    /\ Construct("frame_in_flight_fence", "frame_in_flight_fence",
                 "querySwapChainSupport")
    /\ frame_in_flight_fence' = "signaled"
    /\ UNCHANGED <<command_buffer, image_available_semaphore, render_finished_semaphore>>

(***************************************************************************)
(* Constructor body (lines 35-38): querySwapChainSupport, buildSwapChain,  *)
(* buildRenderPass, buildGraphicsPipeline.                                 *)
(***************************************************************************)
querySwapChainSupport(Caps) ==
    /\ pc = "querySwapChainSupport"
    /\ \E c \in Caps : support' = c
    /\ pc' = "buildSwapChain"
    /\ UNCHANGED <<ndebug, created, error, available, required, gathered,
                   enabled_layers, enabled_extensions, queue_families, index, indices,
                   queue_family_indices, device_queue_families, graphics_queue,
                   present_queue, window_size, swap_chain_extent, syncVars,
                   frameVars, deviceVars>>

\* Lines 186-193: image count and extent are chosen from the capabilities.
buildSwapChain_choose(Sizes) ==
    /\ pc = "buildSwapChain"
    /\ \E size \in Sizes :
         /\ window_size' = size
         /\ swap_chain_extent' = chooseSwapExtent(support, size)
    /\ pc' = "buildSwapChain_create"
    /\ UNCHANGED <<ndebug, created, error, available, required, gathered,
                   enabled_layers, enabled_extensions, queue_families, index, indices,
                   queue_family_indices, device_queue_families, graphics_queue,
                   present_queue, support, syncVars, frameVars, deviceVars>>

\* Lines 196-221: the swapchain, its images and one view per image.
buildSwapChain_create ==
    /\ pc = "buildSwapChain_create"
    /\ swap_chain_images' = [i \in 1..imageCount(support) |-> "available"]
    /\ created' = created \cup {"swap_chain", "swap_chain_image_views"}
    /\ window_size' = <<0, 0>>
    /\ pc' = "buildRenderPass"
    /\ UNCHANGED <<ndebug, error, available, required, gathered,
                   enabled_layers, enabled_extensions, queue_families, index, indices,
                   queue_family_indices, device_queue_families, graphics_queue,
                   present_queue, support, swap_chain_extent, command_buffer,
                   image_available_semaphore, render_finished_semaphore,
                   frame_in_flight_fence, frameVars, deviceVars>>

buildRenderPass ==
    /\ pc = "buildRenderPass"
    /\ created' = created \cup {"render_pass", "swap_chain_framebuffers"}
    /\ pc' = "buildGraphicsPipeline"
    /\ UNCHANGED <<ndebug, error, available, required, gathered,
                   enabled_layers, enabled_extensions, queue_families, index, indices,
                   queue_family_indices, device_queue_families, graphics_queue,
                   present_queue, support, window_size, swap_chain_extent, syncVars,
                   frameVars, deviceVars>>

\* The last statement of the constructor; its local `support` ends with it.
buildGraphicsPipeline ==
    /\ pc = "buildGraphicsPipeline"
    /\ created' = created \cup {"pipeline_layout", "pipeline"}
    /\ support' = NoSupport
    /\ pc' = "run"
    /\ UNCHANGED <<ndebug, error, available, required, gathered,
                   enabled_layers, enabled_extensions, queue_families, index, indices,
                   queue_family_indices, device_queue_families, graphics_queue,
                   present_queue, window_size, swap_chain_extent, syncVars,
                   frameVars, deviceVars>>

Constructor(Caps, Sizes) ==
    \/ buildInstance_gatherLayers
    \/ buildInstance_gatherExtensions
    \/ buildInstance_create
    \/ createSurface
    \/ selectPhysicalDevice
    \/ findQueueFamilies_enter
    \/ findQueueFamilies_iterate
    \/ findQueueFamilies_return
    \/ buildLogicalDevice_check
    \/ buildLogicalDevice_gatherLayers
    \/ buildLogicalDevice_gatherExtensions
    \/ buildLogicalDevice_create
    \/ getGraphicsQueue
    \/ getPresentQueue
    \/ createCommandPool
    \/ createCommandBuffer
    \/ createImageAvailableSemaphore
    \/ createRenderFinishedSemaphore
    \/ createFrameInFlightFence
    \/ querySwapChainSupport(Caps)
    \/ buildSwapChain_choose(Sizes)
    \/ buildSwapChain_create
    \/ buildRenderPass
    \/ buildGraphicsPipeline

(***************************************************************************)
(* run (lines 41-47) and drawFrame (lines 347-367).                        *)
(***************************************************************************)
\* assert(cond): aborts the process unless the build compiled it out.
AssertHolds(cond) == cond \/ ndebug

Abort(what) ==
    /\ error' = [kind |-> "assert", what |-> what, name |-> ""]
    /\ pc' = "terminated"

\* Line 42: window->update() decides whether another frame is drawn.
windowUpdate ==
    /\ pc = "run"
    /\ \E open \in BOOLEAN :
         /\ open => frame < MaxFrames
         /\ window_open' = open
         /\ IF open
            THEN pc' = "waitForFences" /\ frame' = frame + 1
            ELSE pc' = "waitIdle" /\ frame' = frame
    /\ UNCHANGED <<ndebug, ctorVars, syncVars, image_index, acquire_result,
                   present_result, deviceVars>>

waitForFences_noWait ==
    /\ pc = "waitForFences"
    /\ pc' = "resetFences"
    /\ UNCHANGED <<ndebug, ctorVars, syncVars, frameVars, deviceVars>>

\* Lines 348-349: blocks, without timeout, until the fence is signaled.
waitForFences ==
    /\ pc = "waitForFences"
    /\ frame_in_flight_fence = "signaled"
    /\ pc' = "resetFences"
    /\ UNCHANGED <<ndebug, ctorVars, syncVars, frameVars, deviceVars>>

\* Line 350
resetFences ==
    /\ pc = "resetFences"
    /\ frame_in_flight_fence' = "unsignaled"
    /\ pc' = "acquireNextImage"
    /\ UNCHANGED <<ndebug, ctorVars, swap_chain_images, command_buffer,
                   image_available_semaphore, render_finished_semaphore,
                   frameVars, deviceVars>>

\* Lines 352-354. With an unbounded timeout the call returns an image (eSuccess
\* or eSuboptimalKHR, both leaving a signal of image_available pending) once
\* one is available, or fails with an error code, which vk::raii throws.
AcquireResults == {"eSuccess", "eSuboptimalKHR", "eErrorOutOfDateKHR"}

acquireNextImage ==
    /\ pc = "acquireNextImage"
    /\ \E result \in AcquireResults :
         /\ acquire_result' = result
         /\ IF result = "eErrorOutOfDateKHR"
            THEN /\ Throw("vk::SystemError", "vk::SwapchainKHR::acquireNextImage", "")
                 /\ UNCHANGED <<swap_chain_images, image_index,
                                image_available_semaphore, acquire_frame>>
            ELSE /\ \E i \in 1..Len(swap_chain_images) :
                      /\ swap_chain_images[i] = "available"
                      /\ swap_chain_images' = [swap_chain_images EXCEPT ![i] = "acquired"]
                      /\ image_index' = i - 1
                 /\ image_available_semaphore' = "pending"
                 /\ acquire_frame' = frame
                 /\ IF AssertHolds(result = "eSuccess")
                    THEN pc' = "reset" /\ error' = error
                    ELSE Abort("acquire_result == vk::Result::eSuccess")
    /\ UNCHANGED <<ndebug, created, available, required, gathered, enabled_layers,
                   enabled_extensions, queue_families, index, indices,
                   queue_family_indices, device_queue_families, graphics_queue,
                   present_queue, support, window_size, swap_chain_extent,
                   command_buffer, render_finished_semaphore, frame_in_flight_fence,
                   window_open, frame, present_result, graphics_work, present_work,
                   acquired, started, retired, presented>>

\* Line 356
resetCommandBuffer ==
    /\ pc = "reset"
    /\ command_buffer' = "initial"
    /\ pc' = "recordCommandBuffer"
    /\ UNCHANGED <<ndebug, ctorVars, swap_chain_images, image_available_semaphore,
                   render_finished_semaphore, frame_in_flight_fence, frameVars,
                   deviceVars>>

\* Line 357 (lines 325-345)
recordCommandBuffer ==
    /\ pc = "recordCommandBuffer"
    /\ command_buffer' = "executable"
    /\ pc' = "submit"
    /\ UNCHANGED <<ndebug, ctorVars, swap_chain_images, image_available_semaphore,
                   render_finished_semaphore, frame_in_flight_fence, frameVars,
                   deviceVars>>

SubmitInfoNoWait(f, image) ==
    [frame |-> f, image |-> image, waits |-> {}, stage |-> "queued"]

\* Lines 359-360: the batch waits for image_available at the
\* colour-attachment-output stage and signals render_finished.
SubmitInfo(f, image) ==
    [frame |-> f, image |-> image, waits |-> {"image_available"}, stage |-> "queued"]

\* Line 362: the batch is queued with the fence; a failure is thrown.
submit ==
    /\ pc = "submit"
    /\ \/ /\ graphics_work' = Append(graphics_work, SubmitInfo(frame, image_index))
          /\ command_buffer' = "pending"
          /\ pc' = "presentKHR"
          /\ error' = error
       \/ /\ Throw("vk::SystemError", "vk::Queue::submit", "")
          /\ UNCHANGED <<graphics_work, command_buffer>>
    /\ UNCHANGED <<ndebug, created, available, required, gathered, enabled_layers,
                   enabled_extensions, queue_families, index, indices,
                   queue_family_indices, device_queue_families, graphics_queue,
                   present_queue, support, window_size, swap_chain_extent,
                   swap_chain_images, image_available_semaphore,
                   render_finished_semaphore, frame_in_flight_fence, frameVars,
                   present_work, acquire_frame, acquired, started, retired, presented>>

\* Line 364
PresentInfo(f, image) ==
    [frame |-> f, image |-> image, waits |-> {"render_finished"}]

\* A queue handle is usable when the device was created with a queue of its family.
validQueue(queue) == queue.retrieved /\ queue.family \in device_queue_families

\* Lines 364-366. eSuccess and eSuboptimalKHR queue the request, an error code
\* is thrown. Presenting on a handle of a family the device has no queue of is
\* invalid use of the API: the request is served like any other, or the
\* process dies in the driver.
PresentResults == {"eSuccess", "eSuboptimalKHR", "eErrorOutOfDateKHR"}

presentKHR ==
    /\ pc = "presentKHR"
    /\ \/ \E result \in PresentResults :
            /\ present_result' = result
            /\ IF result = "eErrorOutOfDateKHR"
               THEN /\ Throw("vk::SystemError", "vk::Queue::presentKHR", "")
                    /\ UNCHANGED <<present_work, swap_chain_images>>
               ELSE /\ present_work' = Append(present_work, PresentInfo(frame, image_index))
                    /\ swap_chain_images' =
                         [swap_chain_images EXCEPT ![image_index + 1] = "queued"]
                    /\ IF AssertHolds(result = "eSuccess")
                       THEN pc' = "run" /\ error' = error
                       ELSE Abort("present_result == vk::Result::eSuccess")
       \/ /\ ~validQueue(present_queue)
          /\ Throw("crash", "vk::Queue::presentKHR", "")
          /\ UNCHANGED <<present_result, present_work, swap_chain_images>>
    /\ UNCHANGED <<ndebug, created, available, required, gathered, enabled_layers,
                   enabled_extensions, queue_families, index, indices,
                   queue_family_indices, device_queue_families, graphics_queue,
                   present_queue, support, window_size, swap_chain_extent,
                   command_buffer, image_available_semaphore,
                   render_finished_semaphore, frame_in_flight_fence, window_open,
                   frame, image_index, acquire_result, graphics_work, acquire_frame,
                   acquired, started, retired, presented>>

waitIdle_noWait ==
    /\ pc = "waitIdle"
    /\ pc' = "returned"
    /\ UNCHANGED <<ndebug, ctorVars, syncVars, frameVars, deviceVars>>

\* Line 46: returns once every queue of the device is idle.
waitIdle ==
    /\ pc = "waitIdle"
    /\ graphics_work = <<>>
    /\ present_work = <<>>
    /\ pc' = "returned"
    /\ UNCHANGED <<ndebug, ctorVars, syncVars, frameVars, deviceVars>>

\* After run() has returned the owner lets the application object go: every
\* member is destroyed.
destroy ==
    /\ pc = "returned"
    /\ created' = {}
    /\ pc' = "destroyed"
    /\ UNCHANGED <<ndebug, error, available, required, gathered, enabled_layers,
                   enabled_extensions, queue_families, index, indices,
                   queue_family_indices, device_queue_families, graphics_queue,
                   present_queue, support, window_size, swap_chain_extent, syncVars,
                   frameVars, deviceVars>>

(***************************************************************************)
(* Device side: what the calls of drawFrame leave running asynchronously.  *)
(***************************************************************************)
\* The presentation engine releases the acquired image: the signal of
\* image_available requested at line 352 happens.
acquireCompletes ==
    /\ image_available_semaphore = "pending"
    /\ image_available_semaphore' = "signaled"
    /\ acquired' = acquired \cup {acquire_frame}
    /\ UNCHANGED <<pc, ndebug, ctorVars, swap_chain_images, command_buffer,
                   render_finished_semaphore, frame_in_flight_fence, frameVars,
                   graphics_work, present_work, acquire_frame, started, retired,
                   presented>>

\* The oldest batch reaches the colour-attachment-output stage: it consumes
\* the semaphore it waits for (line 360).
colorAttachmentOutputBegins ==
    /\ graphics_work # <<>>
    /\ Head(graphics_work).stage = "queued"
    /\ IF "image_available" \in Head(graphics_work).waits
       THEN /\ image_available_semaphore = "signaled"
            /\ image_available_semaphore' = "unsignaled"
       ELSE UNCHANGED image_available_semaphore
    /\ graphics_work' = [graphics_work EXCEPT ![1].stage = "executing"]
    /\ started' = started \cup {Head(graphics_work).frame}
    /\ UNCHANGED <<pc, ndebug, ctorVars, swap_chain_images, command_buffer,
                   render_finished_semaphore, frame_in_flight_fence, frameVars,
                   present_work, acquire_frame, acquired, retired, presented>>

\* The oldest batch completes: render_finished and the fence given at line 362
\* are signaled, the command buffer leaves the pending state.
submissionRetires ==
    /\ graphics_work # <<>>
    /\ Head(graphics_work).stage = "executing"
    /\ graphics_work' = Tail(graphics_work)
    /\ render_finished_semaphore' = "signaled"
    /\ frame_in_flight_fence' = "signaled"
    /\ command_buffer' = IF Tail(graphics_work) = <<>> THEN "executable" ELSE "pending"
    /\ retired' = retired \cup {Head(graphics_work).frame}
    /\ UNCHANGED <<pc, ndebug, ctorVars, swap_chain_images,
                   image_available_semaphore, frameVars, present_work,
                   acquire_frame, acquired, started, presented>>

\* The oldest presentation request executes: it consumes render_finished
\* (line 364) and hands the image back to the presentation engine. Requests of
\* one queue are performed in order.
presentExecutes ==
    /\ present_work # <<>>
    /\ IF "render_finished" \in Head(present_work).waits
       THEN /\ render_finished_semaphore = "signaled"
            /\ render_finished_semaphore' = "unsignaled"
       ELSE UNCHANGED render_finished_semaphore
    /\ present_work' = Tail(present_work)
    /\ swap_chain_images' =
         [swap_chain_images EXCEPT ![Head(present_work).image + 1] = "available"]
    /\ presented' = presented \cup {Head(present_work).frame}
    /\ UNCHANGED <<pc, ndebug, ctorVars, command_buffer, image_available_semaphore,
                   frame_in_flight_fence, frameVars, graphics_work, acquire_frame,
                   acquired, started, retired>>

Device ==
    \/ acquireCompletes
    \/ colorAttachmentOutputBegins
    \/ submissionRetires
    \/ presentExecutes

Frame ==
    \/ windowUpdate
    \/ waitForFences
    \/ resetFences
    \/ acquireNextImage
    \/ resetCommandBuffer
    \/ recordCommandBuffer
    \/ submit
    \/ presentKHR
    \/ waitIdle
    \/ destroy

Next == Constructor(LoopCaps, LoopWindowSizes) \/ Frame \/ Device

Spec == Init /\ [][Next]_vars

\* The CPU thread keeps running while a call it is in can return without
\* failing (no fairness is assumed for the failures of acquire, submit and
\* present), and the device eventually performs every piece of work that is
\* ready: a pending acquire signal, the start and the completion of the
\* oldest batch, the oldest presentation request.
FairSpec ==
    /\ Spec
    /\ WF_vars(Frame /\ error' = error)
    /\ WF_vars(acquireCompletes)
    /\ WF_vars(colorAttachmentOutputBegins)
    /\ WF_vars(submissionRetires)
    /\ WF_vars(presentExecutes)

\* The constructor alone, over every extent situation of the surface.
ExtentNext == Constructor(ExtentCaps, WindowSizes)

ExtentSpec == Init /\ [][ExtentNext]_vars

(***************************************************************************)
(* Properties.                                                             *)
(***************************************************************************)

\* C1: at most one submission of the command buffer is outstanding in every
\* reachable state, and between the fence wait of a frame and its own
\* submission (acquire, reset, re-record) none is: every earlier frame's
\* submission has retired and the command buffer is not pending.
C1_OneSubmissionInFlight ==
    /\ Len(graphics_work) <= 1
    /\ pc \in {"resetFences", "acquireNextImage", "reset", "recordCommandBuffer", "submit"}
         => /\ graphics_work = <<>>
            /\ command_buffer # "pending"
            /\ \A f \in 1..(frame - 1) : f \in retired

C1_Witness ==
    /\ pc = "recordCommandBuffer"
    /\ frame = 2
    /\ 1 \in retired
    /\ command_buffer = "initial"

\* C2: in every reachable state, every frame whose colour-attachment-output
\* work has begun has had its image acquisition completed, and every frame
\* whose presentation has executed has had its submission completed.
C2_SemaphoreOrdering ==
    /\ started \subseteq acquired
    /\ presented \subseteq retired

C2_Witness ==
    /\ 2 \in presented
    /\ 2 \in started

C4_NonSuccessIsFatal ==
    (acquire_result \notin {"none", "eSuccess"} \/ present_result \notin {"none", "eSuccess"})
        => pc = "terminated"

\* C5: once findQueueFamilies has returned without a graphics family or
\* without a present family, nothing beyond instance, surface, physical device
\* and the indices ever exists, and buildLogicalDevice ends the program with
\* the configuration error.
C5_NoDeviceWithoutQueueFamilies ==
    ( /\ "queue_family_indices" \in created
      /\ \/ ~queue_family_indices.graphics_family.has_value
         \/ ~queue_family_indices.present_family.has_value )
        => /\ created = {"instance", "surface", "physical_device", "queue_family_indices"}
           /\ ~graphics_queue.retrieved
           /\ ~present_queue.retrieved
           /\ device_queue_families = {}
           /\ pc \in {"buildLogicalDevice", "terminated"}
           /\ pc = "terminated" =>
                error.what = "cannot find queues for both graphics and present"

C5_Witness ==
    /\ pc = "terminated"
    /\ error.what = "cannot find queues for both graphics and present"
    /\ queue_family_indices.graphics_family.has_value
    /\ ~queue_family_indices.present_family.has_value

\* C6: when the scan of findQueueFamilies is complete and some family supports
\* both graphics and presentation, the graphics index and the present index
\* are one and the same family, which supports both.
C6_CommonFamilyWins ==
    ( /\ pc = "findQueueFamilies_loop"
      /\ index = Len(queue_families)
      /\ \E i \in 1..Len(queue_families) :
            queue_families[i].graphics /\ queue_families[i].present )
        => /\ indices.graphics_family.has_value
           /\ indices.present_family.has_value
           /\ indices.graphics_family.value = indices.present_family.value
           /\ queue_families[indices.graphics_family.value + 1].graphics
           /\ queue_families[indices.graphics_family.value + 1].present

\* C7: a gather call succeeds exactly when every required name occurs in the
\* available list, and then yields the required names in required order;
\* otherwise the program ends with the missing-layer or missing-extension
\* error naming the first required name that is absent from the available
\* list, and the instance or device under construction does not exist.
C7_GatherRequiredSubset ==
    /\ gathered.ok <=> \A i \in 1..Len(required) : required[i] \in Range(available)
    /\ gathered.ok => gathered.names = required
    /\ ~gathered.ok =>
         /\ \E i \in 1..Len(required) :
              /\ required[i] = gathered.name
              /\ required[i] \notin Range(available)
              /\ \A j \in 1..(i - 1) : required[j] \in Range(available)
         /\ pc = "terminated"
         /\ error.kind = "runtime_error"
         /\ error.name = gathered.name
         /\ error.what = gathered.what
         /\ error.what \in {"missing required layer", "missing required extension"}
         /\ "device" \notin created
         /\ "instance" \notin created => created = {}

C7_Witness ==
    /\ ~gathered.ok
    /\ Len(required) = 2
    /\ required[1] \in Range(available)
    /\ gathered.name = required[2]
    /\ error.what = "missing required extension"

\* C8: after chooseSwapExtent, with the sentinel as current extent the chosen
\* width and height are the window's, clamped componentwise into
\* [minImageExtent, maxImageExtent]; with any other current extent the chosen
\* extent is the current extent.
ClampedInto(r, v, lo, hi) ==
    /\ lo <= r /\ r <= hi
    /\ v < lo => r = lo
    /\ v > hi => r = hi
    /\ (lo <= v /\ v <= hi) => r = v

C8_SwapExtent ==
    pc = "buildSwapChain_create" =>
        IF support.currentExtent = Sentinel
        THEN \A k \in 1..2 :
                ClampedInto(swap_chain_extent[k], window_size[k],
                            support.minImageExtent[k], support.maxImageExtent[k])
        ELSE swap_chain_extent = support.currentExtent

C8_Witness ==
    /\ pc = "buildSwapChain_create"
    /\ support.currentExtent = Sentinel
    /\ window_size[1] > support.maxImageExtent[1]
    /\ window_size[2] < support.minImageExtent[2]
    /\ swap_chain_extent = <<support.maxImageExtent[1], support.minImageExtent[2]>>

\* C9: whenever the application is about to submit on the graphics queue or
\* to present on the present queue, the handle it uses is of a family the
\* logical device was created with a queue for.
C9_QueuesOfCreatedFamilies ==
    /\ pc = "submit" => graphics_queue.family \in device_queue_families
    /\ pc = "presentKHR" => present_queue.family \in device_queue_families

\* C10: no step signals a binary semaphore that still holds an unconsumed
\* signal: an acquire requests the signal of image_available only while it is
\* unsignaled, and a submission signals render_finished only while it is
\* unsignaled.
C10_SignalWaitAlternation ==
    [][ /\ (pc = "acquireNextImage" /\ image_available_semaphore' = "pending")
            => image_available_semaphore = "unsignaled"
        /\ retired' # retired => render_finished_semaphore = "unsignaled" ]_vars

\* C11: whenever drawFrame waits for the fence, the fence is signaled or a
\* submitted batch that will signal it is outstanding; and, the device
\* performing its work, every frame that starts reaches its presentKHR call
\* unless an acquire or submit failure ends the program first.
C11_FrameTerminates ==
    /\ [](pc = "waitForFences" =>
            frame_in_flight_fence = "signaled" \/ graphics_work # <<>>)
    /\ (pc = "waitForFences") ~> (pc = "presentKHR" \/ error.kind # "none")

C11_Witness ==
    /\ pc = "waitForFences"
    /\ frame = 2
    /\ frame_in_flight_fence = "unsignaled"
    /\ graphics_work # <<>>
    /\ error.kind = "none"

====
